---- MODULE Spec2Model ----
(***************************************************************************)
(* The inbound e-mail ingestion worker of bizbroker_backend:               *)
(* EmailListenerService (services/emailListener.js) and the endpoints of   *)
(* app.js that drive it.                                                   *)
(*                                                                         *)
(* JavaScript runs the service on one event loop: a handler runs without   *)
(* interruption up to its next `await`, where any other ready callback may *)
(* run.  Every action below is one such uninterrupted stretch of code.     *)
(***************************************************************************)
EXTENDS Integers, Sequences, FiniteSets, TLC

\* ------------------------------------------------------------- constants
\* this.maxReconnectAttempts
maxReconnectAttempts == 5

\* ---------------------------------------------------------------- bounds
\* mail listener instances that exist at once (the current one included)
MaxListeners == 2
\* reconnect timers pending at once
MaxTimers == 2
\* start() calls waiting in loadUserEmails at once
MaxStarting == 1
\* refreshUserCache()/syncEmails() calls waiting in loadUserEmails at once
MaxRefreshing == 1
\* handleNewEmail invocations in flight at once
MaxHandlers == 2
\* 'mail' events delivered in one behaviour
MaxDeliveries == 2
\* store / collaborator calls that fail in one behaviour
MaxFaults == 1
\* characters in an address field handed to the resolver
MaxLen == 4

VARIABLES
    \* ---- EmailListenerService fields
    mailListener,          \* this.mailListener: 0 (null) or a listener instance
    isRunning,             \* this.isRunning
    reconnectAttempts,     \* this.reconnectAttempts
    userEmails,            \* this.userEmails
    processedMessageIds,   \* this.processedMessageIds
    \* ---- the runtime around it
    listeners,             \* every MailListener instance: its connection state
    timers,                \* pending setTimeout callbacks of handleReconnect
    starting,              \* start() calls suspended at `await loadUserEmails()`
    refreshing,            \* other loadUserEmails() calls suspended at findMany
    handlers,              \* handleNewEmail invocations, each at an await
    \* ---- the external store (prisma)
    users,                 \* prisma.user rows: [email, role]
    emails,                \* prisma.email rows created, per delivered message
    commUpdates,           \* lastCommunication updates done, per message
    activities,            \* prisma.activity rows created, per message
    \* ---- history (not program state)
    phase,                 \* "fresh", "unattended" (one start(), nothing else), "attended",
                           \* "recovering" (one start() since Exhausted), "recovered"
    attemptsMade,          \* connection attempts made while unattended
    failures,              \* connections that failed while unattended
    halted,                \* stop() was called and no start()/syncEmails() since
    redundant,             \* suspended start() calls that were made while isRunning
    delivered,             \* 'mail' events delivered so far
    faults,                \* failed store / collaborator calls so far
    outcomes,              \* per message: how each finished handler run ended
    overlapped,            \* messages delivered again while a run for them was in flight
    rejected,              \* a start() call has ended in a rejected promise
    provisioned,           \* accounts ensureDefaultAdmin has created
    \* ---- one call of extractEmailAddress
    field,                 \* its argument
    resolved,              \* whether it has returned, and what
    cleared,               \* clearProcessedCache() has been called
    dropped                \* addresses the last successful loadUserEmails() removed

svcVars   == <<mailListener, isRunning, reconnectAttempts, userEmails, processedMessageIds>>
connVars  == <<listeners, timers, starting, refreshing>>
storeVars == <<users, emails, commUpdates, activities>>
pipeVars  == <<handlers, delivered, faults, outcomes, overlapped>>
histVars  == <<phase, attemptsMade, failures>>
opVars    == <<halted, redundant>>
resVars   == <<field, resolved>>
auxVars   == <<dropped, rejected, provisioned, resVars>>
vars == <<svcVars, connVars, storeVars, pipeVars, histVars, opVars, cleared, auxVars>>

\* ------------------------------------------------------- strings
\* A string is a sequence of one-character strings.
Lower(c) ==
    CASE c = "A" -> "a"
      [] c = "S" -> "s"
      [] c = "M" -> "m"
      [] c = "X" -> "x"
      [] OTHER -> c

toLowerCase(s) == [i \in DOMAIN s |-> Lower(s[i])]

IsSpace(c) == c = " "

\* String.prototype.trim
trim(s) ==
    LET keep == {i \in DOMAIN s : ~IsSpace(s[i])}
    IN  IF keep = {} THEN <<>>
        ELSE LET lo == CHOOSE i \in keep : \A j \in keep : i <= j
                 hi == CHOOSE i \in keep : \A j \in keep : j <= i
             IN  SubSeq(s, lo, hi)

\* The e-mail addresses of the accounts
ClientAddr == <<"a">>
StaffAddr  == <<"s">>
AdminAddr  == <<"m">>     \* process.env.EMAIL_USERNAME
OtherAddr  == <<"x">>

\* ------------------------------------------------------- AddressResolver
\* A resolver result: null, or a string (possibly empty)
Null == [found |-> FALSE, address |-> <<>>]
Str(s) == [found |-> TRUE, address |-> s]
\* JavaScript truthiness of a resolver result: null and "" are falsy
Truthy(r) == r.found /\ r.address # <<>>

\* emailString.match(/<(.+)>/): the leftmost "<" followed, at least one
\* character later, by a ">"; the group runs greedily to the last ">".
BracketMatch(s) ==
    LET opens == {i \in DOMAIN s : s[i] = "<" /\ \E j \in DOMAIN s : j > i + 1 /\ s[j] = ">"}
    IN  IF opens = {} THEN Null
        ELSE LET i == CHOOSE k \in opens : \A o \in opens : k <= o
                 closes == {j \in DOMAIN s : j > i + 1 /\ s[j] = ">"}
                 j == CHOOSE k \in closes : \A c \in closes : c <= k
             IN  Str(SubSeq(s, i + 1, j - 1))

\* a parseEmailString without toLowerCase
parseEmailString_KeepsCase(s) ==
    IF s = <<>> THEN Null
    ELSE LET match == BracketMatch(s)
         IN  IF match.found THEN Str(trim(match.address))
             ELSE Str(trim(s))

parseEmailString(s) ==
    IF s = <<>> THEN Null
    ELSE LET match == BracketMatch(s)
         IN  IF match.found THEN Str(trim(toLowerCase(match.address)))
             ELSE Str(trim(toLowerCase(s)))

\* An address field as mail-listener2 hands it over:
\*   [kind |-> "absent"]                      undefined / null
\*   [kind |-> "string", value |-> s]
\*   [kind |-> "object", address |-> s]       s = <<>>: no address property
\*   [kind |-> "list",   items |-> <<...>>]   items are fields of the kinds above
extractFirst(first) ==
    CASE first.kind = "object" ->
            IF first.address # <<>> THEN Str(trim(toLowerCase(first.address))) ELSE Null
      [] first.kind = "string" -> parseEmailString(first.value)
      \* a null element: typeof null === 'object', reading .address throws, caught
      [] OTHER -> Null

extractEmailAddress(emailData) ==
    CASE emailData.kind = "absent" -> Null
      [] emailData.kind = "list" ->
            IF emailData.items = <<>> THEN Null ELSE extractFirst(emailData.items[1])
      [] emailData.kind = "string" ->
            IF emailData.value = <<>> THEN Null ELSE parseEmailString(emailData.value)
      [] emailData.kind = "object" ->
            IF emailData.address # <<>> THEN Str(trim(toLowerCase(emailData.address))) ELSE Null
      [] OTHER -> Null

\* ------------------------------------------------------- the store
Client == [email |-> ClientAddr, role |-> "CLIENT"]
Staff  == [email |-> StaffAddr,  role |-> "STAFF"]
Admin  == [email |-> AdminAddr,  role |-> "ADMIN"]
\* a client whose address was entered in capitals (users.js stores it as typed)
Capitals == [email |-> <<"X">>, role |-> "CLIENT"]

\* prisma.user.findMany({ where: { role: 'CLIENT' } }), lower-cased
ClientEmails == {toLowerCase(u.email) : u \in {v \in users : v.role = "CLIENT"}}

\* prisma.user.findUnique({ where: { email } })
findUnique(email) == \E u \in users : u.email = email

\* prisma.user.findFirst({ where: { email, role: { in: ['ADMIN','STAFF'] } } })
findSystemUser(email) ==
    \E u \in users : u.email = toLowerCase(email) /\ u.role \in {"ADMIN", "STAFF"}

\* prisma.user.findFirst({ where: { role: 'ADMIN' } })
findAdmin == \E u \in users : u.role = "ADMIN"


\* ------------------------------------------------------- initial state
Slots == 1..MaxListeners
Live == {"connecting", "connected", "closing"}

\* The catalogue of messages the mailbox may deliver (index 0: none);
\* messageId 0 stands for a message that carries no Message-ID
NoMail == 0
NoId == 0

StringField(s) == [kind |-> "string", value |-> s]
ObjectField(s) == [kind |-> "object", address |-> s]
ListField(items) == [kind |-> "list", items |-> items]

Mails == <<
    \* a tracked client writes to a staff address
    [messageId |-> 1, from |-> StringField(<<"N", " ", "<", "A", ">">>),
                      to   |-> ListField(<<ObjectField(<<"S", " ">>)>>)],
    \* a tracked client writes to an address that is no staff account
    [messageId |-> 2, from |-> ListField(<<ObjectField(<<"a">>)>>),
                      to   |-> StringField(<<"x">>)],
    \* a message without Message-ID
    [messageId |-> NoId, from |-> StringField(<<"a">>),
                         to   |-> StringField(<<"s">>)],
    \* a sender the directory does not know
    [messageId |-> 3, from |-> StringField(<<"x">>),
                      to   |-> StringField(<<"s">>)],
    \* a message without a sender
    [messageId |-> 4, from |-> [kind |-> "absent"],
                      to   |-> StringField(<<"s">>)],
    \* a tracked client writes to nobody
    [messageId |-> 5, from |-> ObjectField(<<"a">>),
                      to   |-> ListField(<<>>)] >>

MailIdx == DOMAIN Mails

IdleHandler == [pc |-> "idle", mail |-> NoMail, recipient |-> "none"]

\* What the store holds when the process starts
InitStores == {{Client, Staff}}

\* What the store may hold once accounts have been added through the API
RunningStores == InitStores \cup {{Client, Staff, Admin}, {Client, Staff, Capitals}}

Min(a, b) == IF a <= b THEN a ELSE b

\* new EmailListenerService()
Constructed ==
    /\ mailListener = 0
    /\ isRunning = FALSE
    /\ reconnectAttempts = 0
    /\ userEmails = {}
    /\ processedMessageIds = {}

\* No call of extractEmailAddress under way
NoCall == [done |-> FALSE, value |-> Null]

\* The process after new EmailListenerService(), nothing called yet
Booted ==
    /\ Constructed
    /\ listeners = [l \in Slots |-> "free"]
    /\ timers = 0
    /\ starting = 0
    /\ refreshing = 0
    /\ handlers = [h \in 1..MaxHandlers |-> IdleHandler]
    /\ users \in InitStores
    /\ emails = [m \in MailIdx |-> 0]
    /\ commUpdates = [m \in MailIdx |-> 0]
    /\ activities = [m \in MailIdx |-> 0]
    /\ phase = "fresh"
    /\ attemptsMade = 0
    /\ failures = 0
    /\ halted = FALSE
    /\ redundant = 0
    /\ delivered = 0
    /\ faults = 0
    /\ outcomes = [m \in MailIdx |-> <<>>]
    /\ overlapped = {}
    /\ cleared = FALSE
    /\ dropped = {}
    /\ rejected = FALSE
    /\ provisioned = 0

Init ==
    /\ Booted
    /\ field = [kind |-> "absent"]
    /\ resolved = NoCall

\* ------------------------------------------------------- history keeping
Open == {l \in Slots : listeners[l] \in {"connecting", "connected"}}

\* Nothing will try to connect any more: no timer, no start() in flight,
\* no connection attempt in progress
Stopped == timers = 0 /\ starting = 0 /\ Open = {}

\* Stopped with the reconnect attempts used up
Exhausted == Stopped /\ reconnectAttempts = maxReconnectAttempts

\* An operator call other than the first start(), or a successful
\* connection, ends the unattended run; its counters are then dropped.
Attended ==
    /\ phase' = "attended"
    /\ attemptsMade' = 0
    /\ failures' = 0

NoteAttempt ==
    /\ phase' = phase
    /\ attemptsMade' = IF phase = "unattended"
                       THEN Min(attemptsMade + 1, maxReconnectAttempts + 2) ELSE 0
    /\ failures' = failures

NoteFailure(l) ==
    /\ phase' = phase
    /\ attemptsMade' = attemptsMade
    /\ failures' = IF phase = "unattended" /\ listeners[l] = "connecting"
                   THEN Min(failures + 1, maxReconnectAttempts + 2) ELSE failures

\* ------------------------------------------------------- ReconnectSupervisor
\* handleReconnect() letting the counter pass the maximum
handleReconnect_OffByOne ==
    IF reconnectAttempts > maxReconnectAttempts
    THEN UNCHANGED <<reconnectAttempts, timers>>
    ELSE /\ timers < MaxTimers
         /\ reconnectAttempts' = reconnectAttempts + 1
         /\ timers' = timers + 1

\* handleReconnect(): count the attempt and arm a timer, unless exhausted
handleReconnect ==
    IF reconnectAttempts >= maxReconnectAttempts
    THEN UNCHANGED <<reconnectAttempts, timers>>
    ELSE /\ timers < MaxTimers
         /\ reconnectAttempts' = reconnectAttempts + 1
         /\ timers' = timers + 1

\* handleError(err)
handleError ==
    IF ~isRunning /\ reconnectAttempts < maxReconnectAttempts
    THEN handleReconnect
    ELSE UNCHANGED <<reconnectAttempts, timers>>

\* a 'server:connected' callback that forgets the counter
onConnected_NoReset ==
    /\ isRunning' = TRUE
    /\ reconnectAttempts' = reconnectAttempts

\* the 'server:connected' callback
onConnected ==
    /\ isRunning' = TRUE
    /\ reconnectAttempts' = 0

\* the 'server:disconnected' callback
onDisconnected ==
    /\ isRunning' = FALSE
    /\ handleReconnect

\* a loadUserEmails() that adds the store's answer to the set it has
loadUserEmails_Merge(ok) ==
    /\ userEmails' = IF ok THEN userEmails \cup ClientEmails ELSE userEmails
    /\ dropped' = IF ok THEN userEmails \ ClientEmails ELSE dropped

\* a loadUserEmails() whose catch empties the set
loadUserEmails_ClearsOnFailure(ok) ==
    /\ userEmails' = IF ok THEN ClientEmails ELSE {}
    /\ dropped' = IF ok THEN userEmails \ ClientEmails ELSE dropped

\* loadUserEmails(), from the point where findMany settles
loadUserEmails(ok) ==
    /\ userEmails' = IF ok THEN ClientEmails ELSE userEmails
    /\ dropped' = IF ok THEN userEmails \ ClientEmails ELSE dropped

\* ------------------------------------------------------- MailboxConnection
\* The instance this.mailListener pointed to is dropped once it is closed
Retired == [l \in Slots |->
              IF l = mailListener /\ listeners[l] = "closed" THEN "free" ELSE listeners[l]]

FreeSlots == {l \in Slots : Retired[l] = "free"}

\* new MailListener(...), the four .on(...) and mailListener.start()
openConnection ==
    /\ FreeSlots # {}
    /\ LET new == CHOOSE l \in FreeSlots : \A k \in FreeSlots : l <= k
       IN  /\ listeners' = [Retired EXCEPT ![new] = "connecting"]
           /\ mailListener' = new

\* start(), up to `await this.loadUserEmails()`
start ==
    /\ starting < MaxStarting
    /\ starting' = starting + 1

\* POST /api/email/start-listener, and startEmailListener() at boot
StartCall ==
    /\ start
    /\ IF phase = "fresh"
       THEN phase' = "unattended" /\ UNCHANGED <<attemptsMade, failures>>
       ELSE IF Exhausted
       THEN phase' = "recovering" /\ attemptsMade' = 0 /\ failures' = 0
       ELSE Attended
    /\ halted' = FALSE
    /\ redundant' = IF isRunning THEN redundant + 1 ELSE redundant
    /\ UNCHANGED <<auxVars, svcVars, listeners, timers, refreshing, storeVars, pipeVars, cleared>>

\* a start() without its try/catch: what the constructor throws reaches the caller
StartResume_NoCatch ==
    /\ starting > 0
    /\ starting' = starting - 1
    /\ \/ redundant > 0 /\ redundant' = redundant - 1
       \/ redundant < starting /\ redundant' = redundant
    /\ halted' = halted
    /\ \E ok \in BOOLEAN : loadUserEmails(ok)
    /\ \/ /\ openConnection
          /\ rejected' = rejected
          /\ NoteAttempt
          /\ UNCHANGED <<isRunning, reconnectAttempts, timers>>
       \/ /\ rejected' = TRUE
          /\ NoteAttempt
          /\ UNCHANGED <<mailListener, isRunning, listeners, reconnectAttempts, timers>>
    /\ UNCHANGED <<processedMessageIds, refreshing, storeVars, pipeVars, cleared, provisioned, resVars>>

\* start(), from `await this.loadUserEmails()` on
StartResume ==
    /\ starting > 0
    /\ starting' = starting - 1
    /\ \/ redundant > 0 /\ redundant' = redundant - 1
       \/ redundant < starting /\ redundant' = redundant
    /\ halted' = halted
    /\ rejected' = rejected
    /\ \E ok \in BOOLEAN : loadUserEmails(ok)
    /\ \/ /\ openConnection
          /\ NoteAttempt
          /\ UNCHANGED <<isRunning, reconnectAttempts, timers>>
       \/ \* the constructor throws: catch (error) { this.handleError(error) }
          /\ handleError
          /\ NoteAttempt
          /\ UNCHANGED <<mailListener, isRunning, listeners>>
    /\ UNCHANGED <<processedMessageIds, refreshing, storeVars, pipeVars, cleared, provisioned, resVars>>

\* a stop() that ends the listener and forgets the running flag
stop_KeepsFlag ==
    IF mailListener # 0
    THEN /\ listeners' = [listeners EXCEPT ![mailListener] =
                             IF @ \in {"connecting", "connected"} THEN "closing" ELSE @]
         /\ isRunning' = isRunning
    ELSE UNCHANGED <<listeners, isRunning>>

\* stop()
stop ==
    IF mailListener # 0
    THEN /\ listeners' = [listeners EXCEPT ![mailListener] =
                             IF @ \in {"connecting", "connected"} THEN "closing" ELSE @]
         /\ isRunning' = FALSE
    ELSE UNCHANGED <<listeners, isRunning>>

\* POST /api/email/stop-listener
StopCall ==
    /\ stop
    /\ Attended
    /\ halted' = TRUE
    /\ redundant' = redundant
    /\ UNCHANGED <<auxVars, mailListener, reconnectAttempts, userEmails, processedMessageIds,
                   timers, starting, refreshing, storeVars, pipeVars, cleared>>

\* a syncEmails() that starts the worker whether it runs or not
SyncCall_AlwaysStarts ==
    /\ start /\ UNCHANGED refreshing
    /\ Attended
    /\ halted' = FALSE
    /\ redundant' = redundant
    /\ UNCHANGED <<dropped, rejected, provisioned, resVars>>
    /\ UNCHANGED <<svcVars, listeners, timers, storeVars, pipeVars, cleared>>

\* syncEmails(), up to its await (POST /api/email/sync)
SyncCall ==
    /\ IF ~isRunning
       THEN start /\ UNCHANGED refreshing
       ELSE /\ refreshing < MaxRefreshing
            /\ refreshing' = refreshing + 1
            /\ UNCHANGED starting
    /\ Attended
    /\ halted' = FALSE
    /\ redundant' = redundant
    /\ UNCHANGED <<dropped, rejected, provisioned, resVars>>
    /\ UNCHANGED <<svcVars, listeners, timers, storeVars, pipeVars, cleared>>

\* The reconnect timer fires: () => { if (!this.isRunning) this.start() }
TimerFire ==
    /\ timers > 0
    /\ timers' = timers - 1
    /\ IF ~isRunning THEN start ELSE UNCHANGED starting
    /\ UNCHANGED <<auxVars, svcVars, listeners, refreshing, storeVars, pipeVars, histVars, opVars, cleared>>

\* A listener instance emits 'server:connected'
EvConnected(l) ==
    /\ listeners[l] = "connecting"
    /\ listeners' = [listeners EXCEPT ![l] = "connected"]
    /\ onConnected
    /\ IF phase = "recovering"
       THEN phase' = "recovered" /\ UNCHANGED <<attemptsMade, failures>>
       ELSE Attended
    /\ UNCHANGED <<auxVars, mailListener, userEmails, processedMessageIds, timers, starting,
                   refreshing, storeVars, pipeVars, opVars, cleared>>

\* A listener instance emits 'server:disconnected' (its socket closed)
EvDisconnected(l) ==
    /\ listeners[l] \in Live
    /\ listeners' = [listeners EXCEPT ![l] = IF l = mailListener THEN "closed" ELSE "free"]
    /\ onDisconnected
    /\ NoteFailure(l)
    /\ UNCHANGED <<auxVars, mailListener, userEmails, processedMessageIds, starting,
                   refreshing, storeVars, pipeVars, opVars, cleared>>

\* A listener instance emits 'error': while connecting the attempt is lost;
\* while connected the error may be fatal to the socket or not
EvError(l) ==
    /\ listeners[l] \in {"connecting", "connected"}
    /\ \E next \in {"connected", "closing"} :
          /\ listeners[l] = "connecting" => next = "closing"
          /\ listeners' = [listeners EXCEPT ![l] = next]
    /\ handleError
    /\ NoteFailure(l)
    /\ UNCHANGED <<auxVars, mailListener, isRunning, userEmails, processedMessageIds, starting,
                   refreshing, storeVars, pipeVars, opVars, cleared>>

\* a refresh that empties the set before it asks the store
RefreshCall_ClearsFirst ==
    /\ refreshing < MaxRefreshing
    /\ refreshing' = refreshing + 1
    /\ userEmails' = {}
    /\ UNCHANGED <<auxVars, mailListener, isRunning, reconnectAttempts, processedMessageIds,
                   listeners, timers, starting, storeVars, pipeVars, histVars, opVars, cleared>>

\* refreshUserCache(), up to its await (POST /api/email/refresh-cache)
RefreshCall ==
    /\ refreshing < MaxRefreshing
    /\ refreshing' = refreshing + 1
    /\ UNCHANGED <<auxVars, svcVars, listeners, timers, starting, storeVars, pipeVars, histVars, opVars, cleared>>

\* loadUserEmails() of refreshUserCache()/syncEmails() settles
RefreshResume ==
    /\ refreshing > 0
    /\ refreshing' = refreshing - 1
    /\ UNCHANGED <<rejected, provisioned, resVars>>
    /\ \E ok \in BOOLEAN : loadUserEmails(ok)
    /\ UNCHANGED <<mailListener, isRunning, reconnectAttempts, processedMessageIds,
                   listeners, timers, starting, storeVars, pipeVars, histVars, opVars, cleared>>

\* a clearProcessedCache() that empties the directory cache as well
ClearCall_BothCaches ==
    /\ processedMessageIds' = {}
    /\ cleared' = TRUE
    /\ userEmails' = {}
    /\ UNCHANGED <<auxVars, mailListener, isRunning, reconnectAttempts,
                   connVars, storeVars, pipeVars, histVars, opVars>>

\* clearProcessedCache() (POST /api/email/clear-processed-cache)
ClearCall ==
    /\ processedMessageIds' = {}
    /\ cleared' = TRUE
    /\ UNCHANGED <<auxVars, mailListener, isRunning, reconnectAttempts, userEmails,
                   connVars, storeVars, pipeVars, histVars, opVars>>

ConnNext ==
    \/ StartCall
    \/ StartResume
    \/ StopCall
    \/ SyncCall
    \/ TimerFire
    \/ \E l \in Slots : EvConnected(l)
    \/ \E l \in Slots : EvDisconnected(l)
    \/ \E l \in Slots : EvError(l)
    \/ RefreshResume

\* The connection life cycle.  refreshUserCache() touches nothing but the
\* directory cache and is left to DirSpec: here every loadUserEmails() call
\* in flight outside start() was made by syncEmails() on a running worker.
ConnSpec == Init /\ [][ConnNext]_vars

\* ------------------------------------------------------- UserDirectoryCache
\* The accounts the API may add to the store
Accounts == {Client, Staff, Admin, Capitals}

\* POST /api/users: prisma.user.create settles (no account has the address
\* yet), then the controller calls refreshUserCache(), up to its await
CreateUser(u) ==
    /\ ~findUnique(u.email)
    /\ users' = users \cup {u}
    /\ refreshing < MaxRefreshing
    /\ refreshing' = refreshing + 1
    /\ UNCHANGED <<auxVars, svcVars, listeners, timers, starting, emails, commUpdates,
                   activities, pipeVars, histVars, opVars, cleared>>

\* POST .../reset and .../delete-all (routes/database.js): prisma.user.deleteMany()
ResetDatabase ==
    /\ users # {}
    /\ users' = {}
    /\ UNCHANGED <<auxVars, svcVars, connVars, emails, commUpdates, activities,
                   pipeVars, histVars, opVars, cleared>>

DirNext ==
    \/ \E u \in Accounts : CreateUser(u)
    \/ ResetDatabase
    \/ RefreshCall
    \/ RefreshResume

DirSpec == Init /\ [][DirNext]_vars


\* ------------------------------------------------------- IngestionPipeline
\* The worker after start() has loaded the directory and its listener has
\* reported 'server:connected': the state in which messages arrive
PipeInit ==
    /\ users \in RunningStores
    /\ mailListener = 1
    /\ listeners = [l \in Slots |-> IF l = 1 THEN "connected" ELSE "free"]
    /\ isRunning = TRUE
    /\ reconnectAttempts = 0
    /\ userEmails = ClientEmails
    /\ processedMessageIds = {}
    /\ timers = 0
    /\ starting = 0
    /\ refreshing = 0
    /\ handlers = [h \in 1..MaxHandlers |-> IdleHandler]
    /\ emails = [m \in MailIdx |-> 0]
    /\ commUpdates = [m \in MailIdx |-> 0]
    /\ activities = [m \in MailIdx |-> 0]
    /\ phase = "attended"
    /\ attemptsMade = 0
    /\ failures = 0
    /\ halted = FALSE
    /\ redundant = 0
    /\ delivered = 0
    /\ faults = 0
    /\ outcomes = [m \in MailIdx |-> <<>>]
    /\ overlapped = {}
    /\ cleared = FALSE
    /\ dropped = {}
    /\ rejected = FALSE
    /\ provisioned = 0
    /\ field = [kind |-> "absent"]
    /\ resolved = NoCall

\* a dedup check that never finds anything
seen_Never(id) == FALSE

\* DedupGuard.seen: mail.messageId && this.processedMessageIds.has(mail.messageId)
seen(id) == id # NoId /\ id \in processedMessageIds

\* a record that does not look whether the message has an id
record_Always(id) == processedMessageIds \cup {id}

\* DedupGuard.record: if (mail.messageId) this.processedMessageIds.add(mail.messageId)
record(id) == IF id # NoId THEN processedMessageIds \cup {id} ELSE processedMessageIds

\* UserDirectoryCache.contains: this.userEmails.has(senderEmail.toLowerCase())
contains(address) == toLowerCase(address) \in userEmails

InFlight(m) == {h \in DOMAIN handlers : handlers[h].pc # "idle" /\ handlers[h].mail = m}

\* a catch block that puts the message back to be handled again
Finish_Retries(h, m, result) ==
    /\ handlers' = [handlers EXCEPT ![h] =
                       IF result \in {"failedLookup", "failedCreate", "failedUpdate", "failedAudit"}
                       THEN [pc |-> "findSender", mail |-> m, recipient |-> "none"]
                       ELSE IdleHandler]
    /\ outcomes' = [outcomes EXCEPT ![m] =
                       Append(@, [result |-> result, via |-> handlers[h].recipient])]

\* The handler returns (or its catch block has logged the exception)
Finish(h, m, result) ==
    /\ handlers' = [handlers EXCEPT ![h] = IdleHandler]
    /\ outcomes' = [outcomes EXCEPT ![m] =
                       Append(@, [result |-> result, via |-> handlers[h].recipient])]

\* The handler suspends at its next await
Await(h, m, pc, recipient) ==
    /\ handlers' = [handlers EXCEPT ![h] = [pc |-> pc, mail |-> m, recipient |-> recipient]]
    /\ outcomes' = outcomes

\* A store or collaborator call settles: it succeeded, or (within the
\* budget of faults) it failed
Settles(ok) ==
    /\ ok \in BOOLEAN
    /\ ~ok => faults < MaxFaults
    /\ faults' = IF ok THEN faults ELSE faults + 1

\* a handler that marks the message processed as soon as it has checked it
EvMail_RecordsFirst(h, m) ==
    /\ \E l \in Slots : listeners[l] = "connected"
    /\ delivered < MaxDeliveries
    /\ handlers[h].pc = "idle"
    /\ \A k \in DOMAIN handlers : handlers[k].pc = "idle" => h <= k
    /\ delivered' = delivered + 1
    /\ overlapped' = IF InFlight(m) # {} THEN overlapped \cup {m} ELSE overlapped
    /\ processedMessageIds' = record(Mails[m].messageId)
    /\ LET mail == Mails[m]
           senderEmail == extractEmailAddress(mail.from)
       IN  IF seen(mail.messageId) THEN Finish(h, m, "duplicate")
           ELSE IF ~Truthy(senderEmail) THEN Finish(h, m, "noSender")
           ELSE IF ~contains(senderEmail.address) THEN Finish(h, m, "notUser")
           ELSE Await(h, m, "findSender", "none")
    /\ UNCHANGED <<auxVars, mailListener, isRunning, reconnectAttempts, userEmails, connVars,
                   storeVars, faults, histVars, opVars, cleared>>

\* A listener emits 'mail': handleNewEmail(mail) up to its first await
EvMail(h, m) ==
    /\ \E l \in Slots : listeners[l] = "connected"
    /\ delivered < MaxDeliveries
    /\ handlers[h].pc = "idle"
    /\ \A k \in DOMAIN handlers : handlers[k].pc = "idle" => h <= k
    /\ delivered' = delivered + 1
    /\ overlapped' = IF InFlight(m) # {} THEN overlapped \cup {m} ELSE overlapped
    /\ LET mail == Mails[m]
           senderEmail == extractEmailAddress(mail.from)
       IN  IF seen(mail.messageId) THEN Finish(h, m, "duplicate")
           ELSE IF ~Truthy(senderEmail) THEN Finish(h, m, "noSender")
           ELSE IF ~contains(senderEmail.address) THEN Finish(h, m, "notUser")
           ELSE Await(h, m, "findSender", "none")
    /\ UNCHANGED <<auxVars, svcVars, connVars, storeVars, faults, histVars, opVars, cleared>>

\* prisma.user.findUnique settles; on to findSystemUser
FindSender(h) ==
    /\ handlers[h].pc = "findSender"
    /\ LET m == handlers[h].mail
           mail == Mails[m]
           senderEmail == extractEmailAddress(mail.from)
           recipientEmail == extractEmailAddress(mail.to)
       IN  \E ok \in BOOLEAN :
              /\ Settles(ok)
              /\ IF ~ok THEN Finish(h, m, "failedLookup")
                 ELSE IF ~findUnique(senderEmail.address) THEN Finish(h, m, "noAccount")
                 ELSE IF ~Truthy(recipientEmail) THEN Finish(h, m, "noRecipient")
                 ELSE Await(h, m, "findRecipient", "none")
    /\ UNCHANGED <<auxVars, svcVars, connVars, storeVars, delivered, overlapped, histVars, opVars, cleared>>

\* findSystemUser settles (its own catch turns a failure into null);
\* on to prisma.email.create, or to ensureDefaultAdmin
FindRecipient(h) ==
    /\ handlers[h].pc = "findRecipient"
    /\ LET m == handlers[h].mail
           recipientEmail == extractEmailAddress(Mails[m].to)
       IN  \E ok \in BOOLEAN :
              /\ Settles(ok)
              /\ IF ok /\ findSystemUser(recipientEmail.address)
                 THEN Await(h, m, "create", "direct")
                 ELSE Await(h, m, "findAdmin", "none")
    /\ UNCHANGED <<auxVars, svcVars, connVars, storeVars, delivered, overlapped, histVars, opVars, cleared>>

\* ensureDefaultAdmin: prisma.user.findFirst({ role: 'ADMIN' }) settles
FindAdmin(h) ==
    /\ handlers[h].pc = "findAdmin"
    /\ LET m == handlers[h].mail
       IN  \E ok \in BOOLEAN :
              /\ Settles(ok)
              /\ IF ~ok THEN Finish(h, m, "noFallback")
                 ELSE IF findAdmin THEN Await(h, m, "create", "fallback")
                 ELSE Await(h, m, "createAdmin", "none")
    /\ UNCHANGED <<auxVars, svcVars, connVars, storeVars, delivered, overlapped, histVars, opVars, cleared>>

\* an ensureDefaultAdmin that hands back an admin it failed to create
CreateAdmin_AssumesCreated(h) ==
    /\ handlers[h].pc = "createAdmin"
    /\ LET m == handlers[h].mail
       IN  \E ok \in BOOLEAN :
              /\ Settles(ok)
              /\ users' = IF ok /\ ~findUnique(AdminAddr) THEN users \cup {Admin} ELSE users
              /\ provisioned' = IF ok /\ ~findUnique(AdminAddr) THEN provisioned + 1 ELSE provisioned
              /\ Await(h, m, "create", "fallback")
    /\ UNCHANGED <<dropped, rejected, resVars, svcVars, connVars, emails, commUpdates, activities, delivered,
                   overlapped, histVars, opVars, cleared>>

\* an ensureDefaultAdmin whose create does not mind an address already taken
CreateAdmin_Duplicates(h) ==
    /\ handlers[h].pc = "createAdmin"
    /\ LET m == handlers[h].mail
       IN  \E ok \in BOOLEAN :
              /\ Settles(ok)
              /\ IF ok
                 THEN /\ users' = users \cup {Admin}
                      /\ provisioned' = provisioned + 1
                      /\ Await(h, m, "create", "fallback")
                 ELSE /\ users' = users
                      /\ provisioned' = provisioned
                      /\ Finish(h, m, "noFallback")
    /\ UNCHANGED <<dropped, rejected, resVars, svcVars, connVars, emails, commUpdates, activities, delivered,
                   overlapped, histVars, opVars, cleared>>

\* ensureDefaultAdmin: prisma.user.create settles (email is unique)
CreateAdmin(h) ==
    /\ handlers[h].pc = "createAdmin"
    /\ LET m == handlers[h].mail
       IN  \E ok \in BOOLEAN :
              /\ Settles(ok)
              /\ IF ok /\ ~findUnique(AdminAddr)
                 THEN /\ users' = users \cup {Admin}
                      /\ provisioned' = provisioned + 1
                      /\ Await(h, m, "create", "fallback")
                 ELSE /\ users' = users
                      /\ provisioned' = provisioned
                      /\ Finish(h, m, "noFallback")
    /\ UNCHANGED <<dropped, rejected, resVars, svcVars, connVars, emails, commUpdates, activities, delivered,
                   overlapped, histVars, opVars, cleared>>

\* saveIncomingEmail: prisma.email.create settles
Create(h) ==
    /\ handlers[h].pc = "create"
    /\ LET m == handlers[h].mail
       IN  \E ok \in BOOLEAN :
              /\ Settles(ok)
              /\ IF ok
                 THEN /\ emails' = [emails EXCEPT ![m] = @ + 1]
                      /\ Await(h, m, "update", handlers[h].recipient)
                 ELSE /\ emails' = emails
                      /\ Finish(h, m, "failedCreate")
    /\ UNCHANGED <<auxVars, svcVars, connVars, users, commUpdates, activities, delivered,
                   overlapped, histVars, opVars, cleared>>

\* a saveIncomingEmail that marks the message processed before the audit call
Update_RecordsEarly(h) ==
    /\ handlers[h].pc = "update"
    /\ LET m == handlers[h].mail
       IN  \E ok \in BOOLEAN :
              /\ Settles(ok)
              /\ IF ok
                 THEN /\ commUpdates' = [commUpdates EXCEPT ![m] = @ + 1]
                      /\ processedMessageIds' = record(Mails[m].messageId)
                      /\ Await(h, m, "audit", handlers[h].recipient)
                 ELSE /\ commUpdates' = commUpdates
                      /\ processedMessageIds' = processedMessageIds
                      /\ Finish(h, m, "failedUpdate")
    /\ UNCHANGED <<auxVars, mailListener, isRunning, reconnectAttempts, userEmails, connVars,
                   users, emails, activities, delivered, overlapped, histVars, opVars, cleared>>

\* saveIncomingEmail: prisma.user.update (lastCommunication) settles
Update(h) ==
    /\ handlers[h].pc = "update"
    /\ LET m == handlers[h].mail
       IN  \E ok \in BOOLEAN :
              /\ Settles(ok)
              /\ IF ok
                 THEN /\ commUpdates' = [commUpdates EXCEPT ![m] = @ + 1]
                      /\ Await(h, m, "audit", handlers[h].recipient)
                 ELSE /\ commUpdates' = commUpdates
                      /\ Finish(h, m, "failedUpdate")
    /\ UNCHANGED <<auxVars, svcVars, connVars, users, emails, activities, delivered,
                   overlapped, histVars, opVars, cleared>>

\* What handleNewEmail does once saveIncomingEmail has returned: on the
\* direct branch it marks the message processed; the fallback branch returns
afterSave(h, m) ==
    IF handlers[h].recipient = "direct"
    THEN processedMessageIds' = record(Mails[m].messageId)
    ELSE processedMessageIds' = processedMessageIds

\* What handleNewEmail does when saveIncomingEmail throws: catch, log
afterThrow == processedMessageIds' = processedMessageIds

\* saveIncomingEmail: createActivity settles; back in handleNewEmail
Audit(h) ==
    /\ handlers[h].pc = "audit"
    /\ LET m == handlers[h].mail
       IN  \E ok \in BOOLEAN :
              /\ Settles(ok)
              /\ IF ok
                 THEN /\ activities' = [activities EXCEPT ![m] = @ + 1]
                      /\ afterSave(h, m)
                      /\ Finish(h, m, "stored")
                 ELSE /\ activities' = activities
                      /\ afterThrow
                      /\ Finish(h, m, "failedAudit")
    /\ UNCHANGED <<auxVars, mailListener, isRunning, reconnectAttempts, userEmails, connVars,
                   users, emails, commUpdates, delivered, overlapped, histVars, opVars, cleared>>

PipeNext ==
    \/ \E h \in 1..MaxHandlers, m \in MailIdx : EvMail(h, m)
    \/ \E h \in 1..MaxHandlers : FindSender(h)
    \/ \E h \in 1..MaxHandlers : FindRecipient(h)
    \/ \E h \in 1..MaxHandlers : FindAdmin(h)
    \/ \E h \in 1..MaxHandlers : CreateAdmin(h)
    \/ \E h \in 1..MaxHandlers : Create(h)
    \/ \E h \in 1..MaxHandlers : Update(h)
    \/ \E h \in 1..MaxHandlers : Audit(h)
    \/ ClearCall

PipeSpec == PipeInit /\ [][PipeNext]_vars

\* ------------------------------------------------------- refresh callers
\* The three callers of loadUserEmails() (start(), syncEmails() on a running
\* worker, refreshUserCache()) next to a directory that changes
RefreshNext ==
    \/ DirNext
    \/ StartCall
    \/ StartResume
    \/ SyncCall
    \/ \E l \in Slots : EvConnected(l)

RefreshSpec == Init /\ [][RefreshNext]_vars

\* ------------------------------------------------------- one resolver call
Alphabet == {"A", "a", " ", "<", ">"}

\* Every string of at most MaxLen characters
Strings == UNION {[1..k -> Alphabet] : k \in 0..MaxLen}

\* What a list may hold in first place: a string, an address object
\* (possibly without address), or null
Elements ==
    {StringField(s) : s \in Strings} \cup {ObjectField(s) : s \in Strings}
        \cup {[kind |-> "null"]}

\* The address fields handed to the resolver: nothing, a string, an object,
\* or a list (empty, of one element, or with a second element after it)
Fields ==
    {[kind |-> "absent"]}
        \cup {StringField(s) : s \in Strings}
        \cup {ObjectField(s) : s \in Strings}
        \cup {ListField(<<>>)}
        \cup {ListField(<<e>>) : e \in Elements}
        \cup {ListField(<<e, ObjectField(StaffAddr)>>) : e \in Elements}

ResolverInit ==
    /\ Booted
    /\ field \in Fields
    /\ resolved = NoCall

\* extractEmailAddress(field) returns
Resolve ==
    /\ ~resolved.done
    /\ resolved' = [done |-> TRUE, value |-> extractEmailAddress(field)]
    /\ UNCHANGED <<field, dropped, rejected, provisioned, svcVars, connVars, storeVars,
                   pipeVars, histVars, opVars, cleared>>

ResolverNext == Resolve

ResolverSpec == ResolverInit /\ [][ResolverNext]_vars

\* ------------------------------------------------------- cache and pipeline
\* Messages whose handler ends at the directory check or right after the
\* sender lookup: the sender has no account of that very address, or there
\* is no recipient address
Brief ==
    {m \in MailIdx :
        LET senderEmail == extractEmailAddress(Mails[m].from)
        IN  /\ Truthy(senderEmail)
            /\ \/ ~Truthy(extractEmailAddress(Mails[m].to))
               \/ \A u \in Accounts : u.email # senderEmail.address}

\* Directory refreshes and store changes going on while such messages arrive
CacheNext ==
    \/ \E h \in 1..MaxHandlers, m \in Brief : EvMail(h, m)
    \/ \E h \in 1..MaxHandlers : FindSender(h)
    \/ DirNext

CacheSpec == PipeInit /\ [][CacheNext]_vars

Next == ConnNext \/ DirNext \/ PipeNext \/ ResolverNext

Spec == Init /\ [][Next]_vars

\* ===================================================== connection claims
\* Stopped, and every socket has reported its close
Quiescent == Stopped /\ \A l \in Slots : listeners[l] \notin Live

C4_NoReconnectAfterStop ==
    [][(halted /\ mailListener # 0 /\ timers' < timers) => starting' = starting]_vars

\* C5: at most one mailbox connection (a listener connecting or connected)
\* exists at a time.
C5_OneConnection == Cardinality(Open) <= 1

\* C6: a start() called while the worker is running is a no-op: when it
\* resumes with the worker still running it opens no connection and leaves
\* the service's fields alone.
C6_StartIdempotent ==
    [][(isRunning /\ redundant' < redundant) =>
            UNCHANGED <<mailListener, listeners, isRunning, reconnectAttempts>>]_vars

\* C9: a fatal transport error reported by the connected listener takes the
\* worker out of Connected: running flag false, counter incremented, a
\* reconnect scheduled.
C9_ErrorLeavesConnected ==
    [][\A l \in Slots :
          (EvError(l) /\ l = mailListener /\ listeners[l] = "connected"
                      /\ listeners'[l] = "closing" /\ isRunning)
          => (~isRunning' /\ reconnectAttempts' = reconnectAttempts + 1
                          /\ timers' = timers + 1)]_vars

\* C10: a 'connected' event leaves the running flag true and the counter
\* at 0, and the counter is 0 for as long as the worker is running.
C10_ConnectedResetsCounter ==
    /\ [](isRunning => reconnectAttempts = 0)
    /\ [][(\E l \in Slots : EvConnected(l)) => (isRunning' /\ reconnectAttempts' = 0)]_vars

\* a connection succeeded while a reconnect timer of an earlier failure
\* was still pending
C10_Witness ==
    /\ isRunning
    /\ reconnectAttempts = 0
    /\ timers > 0
    /\ \E l \in Slots : listeners[l] = "connected"


\* ===================================================== pipeline claims
WithId == {m \in MailIdx : Mails[m].messageId # NoId}

Results(m) == {outcomes[m][i].result : i \in DOMAIN outcomes[m]}
Runs(m, result) == {i \in DOMAIN outcomes[m] : outcomes[m][i].result = result}
Fallbacks(m) == {i \in DOMAIN outcomes[m] : outcomes[m][i].via = "fallback"}

\* Every delivery of m so far started after the one before had finished, was
\* stored against a directly resolved staff/admin recipient or skipped as
\* a duplicate, and the dedup cache was not cleared
SequentialDirect(m) ==
    /\ ~cleared
    /\ m \notin overlapped
    /\ Results(m) \subseteq {"stored", "duplicate"}
    /\ Fallbacks(m) = {}

\* C1: a message with an id, from a tracked sender to a staff/admin address,
\* delivered again after its handler has finished: one record and one audit
\* event in all; its id is unseen before the first delivery has been
\* handled and seen after.
C1_RedeliveryStoresOnce ==
    \A m \in WithId :
        SequentialDirect(m) =>
            IF outcomes[m] = <<>>
            THEN ~seen(Mails[m].messageId)
            ELSE /\ seen(Mails[m].messageId)
                 /\ emails[m] = 1
                 /\ activities[m] = 1
                 /\ outcomes[m][1].result = "stored"
                 /\ Runs(m, "stored") = {1}

C1_Witness ==
    \E m \in WithId :
        /\ SequentialDirect(m)
        /\ Len(outcomes[m]) = 2
        /\ outcomes[m][1].result = "stored"
        /\ outcomes[m][2].result = "duplicate"
        /\ emails[m] = 1
        /\ activities[m] = 1

\* C2: once a handler has persisted the record of a message that carries an
\* id and has finished, the id is in the DedupGuard, whether the recipient
\* was resolved directly or is the fallback admin (no call having failed).
C2_PersistedIsRecorded ==
    \A m \in WithId :
        (~cleared /\ faults = 0 /\ Runs(m, "stored") # {}) => seen(Mails[m].messageId)

\* C7: a handler runs from dedup check to dedup record before the next
\* one makes its dedup check, so 'mail' events with one message id delivered
\* back to back (directly resolved recipient, no call failing, no cache
\* reset) leave exactly one record once they are handled.
C7_OneRecordBackToBack ==
    \A m \in WithId :
        (/\ ~cleared
         /\ faults = 0
         /\ InFlight(m) = {}
         /\ Runs(m, "stored") # {}
         /\ Fallbacks(m) = {}) => emails[m] = 1

\* C8: when the audit call fails after the record of a directly addressed
\* message was persisted, the message id is still recorded in the DedupGuard.
C8_AuditFailureStillRecords ==
    \A m \in WithId :
        (/\ ~cleared
         /\ \E i \in Runs(m, "failedAudit") : outcomes[m][i].via = "direct")
        => seen(Mails[m].messageId)

\* Results of handler runs that got past prisma.email.create
Persisting == {"stored", "failedUpdate", "failedAudit"}

PastCreate(m) == {h \in InFlight(m) : handlers[h].pc \in {"update", "audit"}}

\* Every record of m was created by a run that got past prisma.email.create,
\* and every audit event by a run that ended "stored"
Accounted(m) ==
    /\ emails[m] = Cardinality({i \in DOMAIN outcomes[m] : outcomes[m][i].result \in Persisting})
                    + Cardinality(PastCreate(m))
    /\ activities[m] = Cardinality(Runs(m, "stored"))

\* C11: a record is created only by a handler that found the sender's
\* account in the store and holds a recipient that is a STAFF/ADMIN account
\* found by address or the fallback admin, both present in the store; a run
\* whose fallback resolution failed contributes no record and no audit event.
C11_RecordNeedsBothParties ==
    /\ [][\A m \in MailIdx :
            emails'[m] > emails[m] =>
                \E h \in InFlight(m) :
                    /\ handlers[h].pc = "create"
                    /\ handlers'[h].pc = "update"
                    /\ findUnique(extractEmailAddress(Mails[m].from).address)
                    /\ \/ /\ handlers[h].recipient = "direct"
                          /\ findSystemUser(extractEmailAddress(Mails[m].to).address)
                       \/ /\ handlers[h].recipient = "fallback"
                          /\ findAdmin]_vars
    /\ [](\A m \in MailIdx : Accounted(m))

\* a run gave up because no fallback admin could be had, and left nothing
C11_Witness ==
    \E m \in MailIdx :
        /\ Runs(m, "noFallback") # {}
        /\ InFlight(m) = {}
        /\ emails[m] = 0
        /\ activities[m] = 0

\* How a run ends that discards its message before saveIncomingEmail
Discards == {"duplicate", "noSender", "notUser", "noAccount", "noRecipient"}

\* The run that has just ended, if this step ended one for m
Ended(m) == outcomes'[m][Len(outcomes'[m])]

\* C12: the step in which a handler discards its message (duplicate id, no
\* sender address, sender not in the directory, sender account not in the
\* store, no recipient address) creates no record and no audit event, updates
\* no last-communication field and leaves the DedupGuard as it was; a message
\* whose every run was such a discard has no record, no update, no audit
\* event, and its id is not in the DedupGuard.
C12_DiscardLeavesNothing ==
    /\ [][\A m \in MailIdx :
            (Len(outcomes'[m]) > Len(outcomes[m]) /\ Ended(m).result \in Discards)
            => UNCHANGED <<users, emails, commUpdates, activities, processedMessageIds>>]_vars
    /\ [](\A m \in MailIdx :
            (InFlight(m) = {} /\ Results(m) \subseteq Discards) =>
                /\ emails[m] = 0
                /\ commUpdates[m] = 0
                /\ activities[m] = 0
                /\ ~seen(Mails[m].messageId))

\* two messages were discarded, one for a sender account missing from the
\* store and one for a missing recipient address; nothing was written
C12_Witness ==
    /\ \E m \in MailIdx : Results(m) = {"noAccount"}
    /\ \E m \in MailIdx : Results(m) = {"noRecipient"}
    /\ \A m \in MailIdx : InFlight(m) = {} /\ emails[m] = 0 /\ commUpdates[m] = 0 /\ activities[m] = 0
    /\ processedMessageIds = {}

\* ===================================================== directory claims
\* Every address an account or the cache can hold
Addresses == {u.email : u \in Accounts} \cup {toLowerCase(u.email) : u \in Accounts}

\* C13: when a loadUserEmails() call settles, either it failed and the cache
\* is as before, or the cache holds exactly the lower-cased addresses of
\* the CLIENT accounts in the store; an address the last successful refresh
\* removed is not in the cache (replace, never merge).
C13_RefreshReplaces ==
    /\ [][refreshing' < refreshing =>
            \/ userEmails' = userEmails /\ dropped' = dropped
            \/ /\ userEmails' \subseteq Addresses
               /\ \A a \in Addresses :
                     a \in userEmails' <=>
                        \E u \in users : u.role = "CLIENT" /\ toLowerCase(u.email) = a]_vars
    /\ [](dropped \cap userEmails = {})

\* a refresh removed an address of the previous snapshot and the cache holds
\* the address, lower-cased, of the client now in the store
C13_Witness ==
    /\ refreshing = 0
    /\ dropped = {ClientAddr}
    /\ users = {Capitals}
    /\ userEmails = {OtherAddr}

\* How a run ends whose exception reached the catch block of handleNewEmail
Thrown == {"failedLookup", "failedCreate", "failedUpdate", "failedAudit"}

\* C14: the step in which a store or collaborator call of the pipeline
\* fails leaves the running flag, the attempt counter, the connection, the
\* directory cache and the reconnect machinery as they were, and the handler
\* it happened in ends (or, after a failed recipient lookup, goes on to the
\* fallback admin): the message is not taken up again.
C14_FailureStaysInHandler ==
    [][faults' > faults =>
          /\ UNCHANGED <<isRunning, reconnectAttempts, mailListener, listeners,
                         userEmails, timers, starting, refreshing, delivered>>
          /\ \A h \in DOMAIN handlers :
                handlers'[h] # handlers[h] =>
                    /\ handlers[h].pc # "idle"
                    /\ handlers'[h].pc \in {"idle", "findAdmin"}
                    /\ handlers'[h].pc = "findAdmin" => handlers[h].pc = "findRecipient"]_vars

\* a run of a message ended in the catch block, and the same message,
\* delivered again afterwards, was stored by a worker still running
C14_Witness ==
    \E m \in MailIdx :
        /\ m \notin overlapped
        /\ Len(outcomes[m]) = 2
        /\ outcomes[m][1].result \in Thrown
        /\ outcomes[m][2].result = "stored"
        /\ isRunning
        /\ reconnectAttempts = 0

\* ===================================================== recovery claims
\* C15: a worker that is Stopped with its attempts used up stays so until
\* start() is called (no timer, no start() in flight, no connection, whatever
\* events still arrive); the connection that this start() opens is the only
\* one, and when it reports 'server:connected' the worker is running with
\* the counter at 0.
C15_ExplicitStartRecovers ==
    /\ [][(Exhausted /\ starting' = starting) => Exhausted']_vars
    /\ [][(phase = "recovering" /\ starting' < starting /\ listeners' # listeners) =>
             (Open' = {mailListener'} /\ listeners'[mailListener'] = "connecting")]_vars
    /\ [][(phase = "recovering" /\ phase' = "recovered") =>
             (/\ isRunning'
              /\ reconnectAttempts' = 0
              /\ listeners'[mailListener'] = "connected")]_vars

\* the attempts were used up, start() was called, its connection succeeded
C15_Witness ==
    /\ phase = "recovered"
    /\ isRunning
    /\ reconnectAttempts = 0
    /\ mailListener # 0
    /\ listeners[mailListener] = "connected"

StopSettled ==
    /\ ~isRunning
    /\ mailListener # 0 => listeners[mailListener] \notin {"connecting", "connected"}

\* C17: stop() can be called in every state; it leaves the running flag
\* false and a state that a second stop() does not change: called in such a
\* state, stop() alters no field of the service, no connection, no timer and
\* nothing in the store.
C17_StopIdempotent ==
    /\ [](ENABLED StopCall)
    /\ [][StopCall => (~isRunning' /\ StopSettled')]_vars
    /\ [][(StopSettled /\ StopCall) => UNCHANGED <<svcVars, connVars, storeVars>>]_vars

\* stop() has been called on a worker with a connection: the connection is
\* closing and stop() has nothing left to do
C17_Witness ==
    /\ halted
    /\ StopSettled
    /\ mailListener # 0
    /\ listeners[mailListener] = "closing"

\* C18: syncEmails() on a running worker starts one directory refresh and
\* no start(), and that refresh, when it settles, touches no connection;
\* syncEmails() on a worker that is not running calls start() and starts no
\* refresh of its own, and a start() that resumes opens at most one
\* connection.  The call itself touches no connection.
C18_SyncRefreshesOrStarts ==
    /\ [][SyncCall =>
            /\ UNCHANGED <<mailListener, listeners, isRunning, reconnectAttempts, timers>>
            /\ IF isRunning
               THEN refreshing' = refreshing + 1 /\ starting' = starting
               ELSE starting' = starting + 1 /\ refreshing' = refreshing]_vars
    /\ [][refreshing' < refreshing =>
            UNCHANGED <<mailListener, listeners, isRunning, reconnectAttempts,
                        timers, starting>>]_vars
    /\ [][starting' < starting => Cardinality(Open') <= Cardinality(Open) + 1]_vars

\* syncEmails() was called on a running worker: its refresh is under way,
\* the one connection is as it was
C18_Witness ==
    /\ refreshing = 1
    /\ isRunning
    /\ starting = 0
    /\ Open = {mailListener}
    /\ listeners[mailListener] = "connected"

\* C19: no start() call ends in a rejected promise; a start() that ends
\* without having opened a connection (the listener could not be constructed
\* or started) has handed the failure to handleError: a reconnect is counted
\* and scheduled if the worker is not running and attempts are left, and
\* nothing else happens.
C19_StartNeverRejects ==
    /\ [](~rejected)
    /\ [][(starting' < starting /\ listeners' = listeners) =>
            /\ UNCHANGED <<mailListener, isRunning>>
            /\ IF ~isRunning /\ reconnectAttempts < maxReconnectAttempts
               THEN reconnectAttempts' = reconnectAttempts + 1 /\ timers' = timers + 1
               ELSE UNCHANGED <<reconnectAttempts, timers>>]_vars

\* the first start() could not construct its listener: it has returned, a
\* reconnect is counted and scheduled
C19_Witness ==
    /\ ~rejected
    /\ mailListener = 0
    /\ starting = 0
    /\ reconnectAttempts = 1
    /\ timers = 1

\* C20: a worker left alone after one start() has counted at most one
\* reconnect per connection attempt it has made (an attempt fails at most
\* once, whatever events report the failure), and never more than one
\* reconnect timer is pending.
C20_OneReconnectPerFailure ==
    /\ timers <= 1
    /\ phase = "unattended" => reconnectAttempts <= attemptsMade

\* ===================================================== dedup claims
\* C21: an id enters the DedupGuard only in the step in which the audit call
\* of a handler of that message succeeds, its record and its
\* last-communication update having been written before (audits never
\* outnumber updates, updates never outnumber records); ids leave the
\* DedupGuard only all at once, by clearProcessedCache(); the step that ends
\* a run in the catch block leaves the DedupGuard as it was.
C21_RecordedAfterAudit ==
    /\ [][\A m \in WithId :
            (Mails[m].messageId \in processedMessageIds' \ processedMessageIds) =>
                \E h \in InFlight(m) :
                    /\ handlers[h].pc = "audit"
                    /\ handlers'[h].pc = "idle"
                    /\ activities'[m] = activities[m] + 1
                    /\ emails[m] >= 1
                    /\ commUpdates[m] >= 1]_vars
    /\ [](\A m \in MailIdx : activities[m] <= commUpdates[m] /\ commUpdates[m] <= emails[m])
    /\ [][~(processedMessageIds \subseteq processedMessageIds') =>
            (processedMessageIds' = {} /\ cleared')]_vars
    /\ [][\A m \in MailIdx :
            (Len(outcomes'[m]) > Len(outcomes[m]) /\ Ended(m).result \in Thrown)
            => processedMessageIds' = processedMessageIds]_vars

\* the audit call of a message failed and left its id unrecorded; delivered
\* again, the message was processed again and its id recorded
C21_Witness ==
    \E m \in WithId :
        /\ ~cleared
        /\ m \notin overlapped
        /\ Len(outcomes[m]) = 2
        /\ outcomes[m][1].result = "failedAudit"
        /\ outcomes[m][2] = [result |-> "stored", via |-> "direct"]
        /\ seen(Mails[m].messageId)

WithoutId == MailIdx \ WithId

\* C22: a message without Message-ID is never skipped as a duplicate and
\* never enters the DedupGuard: the steps of its handlers leave the guard as
\* it was, and when its deliveries are handled and no call has failed, each
\* of them that passed the sender and recipient checks has stored a record
\* and an audit event of its own.
C22_NoIdNeverDeduplicated ==
    /\ [](NoId \notin processedMessageIds)
    /\ [](\A m \in WithoutId :
            /\ "duplicate" \notin Results(m)
            /\ (faults = 0 /\ InFlight(m) = {}) =>
                  /\ emails[m] = Cardinality(Runs(m, "stored"))
                  /\ activities[m] = emails[m]
                  /\ Results(m) \subseteq {"stored"} \cup Discards \cup {"noFallback"})
    /\ [][\A m \in WithoutId :
            (\E h \in DOMAIN handlers :
                 handlers'[h] # handlers[h] /\ m \in {handlers[h].mail, handlers'[h].mail})
            => processedMessageIds' = processedMessageIds]_vars

\* the message without id was delivered twice, one delivery after the
\* other, and stored twice; the DedupGuard is empty
C22_Witness ==
    \E m \in WithoutId :
        /\ m \notin overlapped
        /\ Len(outcomes[m]) = 2
        /\ Results(m) = {"stored"}
        /\ emails[m] = 2
        /\ activities[m] = 2
        /\ processedMessageIds = {}
        /\ ~cleared

\* ===================================================== counter claims
\* C23: the attempt counter stays within 0..maxReconnectAttempts; a step
\* that arms a reconnect timer starts with the counter below the maximum
\* and adds one to it; the counter changes only by +1, or to 0 in the
\* 'server:connected' callback of a listener.
C23_CounterBounded ==
    /\ [](reconnectAttempts \in 0..maxReconnectAttempts)
    /\ [][timers' > timers =>
            /\ reconnectAttempts < maxReconnectAttempts
            /\ reconnectAttempts' = reconnectAttempts + 1
            /\ timers' = timers + 1]_vars
    /\ [][reconnectAttempts' # reconnectAttempts =>
            \/ reconnectAttempts' = reconnectAttempts + 1 /\ timers' = timers + 1
            \/ reconnectAttempts' = 0 /\ \E l \in Slots : EvConnected(l)]_vars

\* the last reconnect has been counted and is pending
C23_Witness ==
    /\ reconnectAttempts = maxReconnectAttempts
    /\ timers = 1
    /\ ~isRunning

\* ===================================================== fallback claims
\* C24: ensureDefaultAdmin creates no account when the store has an ADMIN
\* (the step that finds one leaves the store alone); an account is created
\* only when there is none, one at a time, and it is the admin; however many
\* messages take the fallback, the pipeline creates at most one account.
C24_OneFallbackAccount ==
    /\ [](provisioned <= 1)
    /\ [][provisioned' # provisioned =>
            /\ ~findAdmin
            /\ provisioned' = provisioned + 1
            /\ users' = users \cup {Admin}
            /\ users' # users]_vars
    /\ [][(findAdmin /\ \E h \in DOMAIN handlers :
                 handlers[h].pc = "findAdmin" /\ handlers'[h] # handlers[h])
           => users' = users /\ provisioned' = provisioned]_vars

\* a message took the fallback twice: the first run created the admin, the
\* second found it
C24_Witness ==
    \E m \in MailIdx :
        /\ m \notin overlapped
        /\ Len(outcomes[m]) = 2
        /\ \A i \in 1..2 : outcomes[m][i] = [result |-> "stored", via |-> "fallback"]
        /\ provisioned = 1
        /\ Admin \in users

\* ===================================================== cache claims
\* C25: the directory cache changes only in the step in which a
\* loadUserEmails() call settles, and then to the complete answer of the
\* store; the directory check of a handler is made against the cache of
\* the state it runs in, so it sees the previous snapshot or the new one.
C25_SnapshotIsWhole ==
    /\ [][userEmails' # userEmails =>
            (refreshing' < refreshing /\ userEmails' = ClientEmails)]_vars
    /\ [][\A m \in MailIdx :
            (Len(outcomes'[m]) > Len(outcomes[m]) /\ Ended(m).result = "notUser")
            => ~contains(extractEmailAddress(Mails[m].from).address)]_vars
    /\ [][\A h \in DOMAIN handlers :
            (handlers[h].pc = "idle" /\ handlers'[h].pc = "findSender")
            => contains(extractEmailAddress(Mails[handlers'[h].mail].from).address)]_vars

\* a client has been added to the store and the refresh for it is in flight:
\* a message of that client was checked against the previous snapshot and
\* discarded
C25_Witness ==
    /\ refreshing > 0
    /\ Capitals \in users
    /\ OtherAddr \notin userEmails
    /\ userEmails # {}
    /\ \E m \in Brief :
          /\ extractEmailAddress(Mails[m].from).address = OtherAddr
          /\ Results(m) = {"notUser"}

\* C26: clearProcessedCache() empties the DedupGuard and leaves the
\* directory cache, the running flag, the attempt counter, the connection,
\* the timers and the store as they were; with the guard empty no message
\* counts as seen.
C26_ClearOnlyDedup ==
    /\ [][ClearCall =>
            /\ processedMessageIds' = {}
            /\ UNCHANGED <<userEmails, isRunning, reconnectAttempts, mailListener,
                           connVars, storeVars, handlers>>]_vars
    /\ [](processedMessageIds = {} => \A m \in MailIdx : ~seen(Mails[m].messageId))

\* a message was stored and its id recorded; the guard was cleared; the
\* message, delivered again, was stored again
C26_Witness ==
    \E m \in WithId :
        /\ cleared
        /\ m \notin overlapped
        /\ Len(outcomes[m]) = 2
        /\ \A i \in 1..2 : outcomes[m][i] = [result |-> "stored", via |-> "direct"]
        /\ emails[m] = 2
        /\ userEmails = ClientEmails
        /\ isRunning

\* ===================================================== resolver claims
IsLower(s) == \A i \in DOMAIN s : Lower(s[i]) = s[i]
IsTrimmed(s) == s = <<>> \/ (~IsSpace(s[1]) /\ ~IsSpace(s[Len(s)]))
Plain(s) == s # <<>> /\ \A i \in DOMAIN s : s[i] \notin {"<", ">"}

\* s is `name <addr>`: one "<", one ">" that ends the string, and a
\* non-empty addr between them
Bracketed(s) ==
    /\ Len(s) >= 3
    /\ s[Len(s)] = ">"
    /\ Cardinality({i \in DOMAIN s : s[i] = "<"}) = 1
    /\ Cardinality({i \in DOMAIN s : s[i] = ">"}) = 1
    /\ s[Len(s) - 1] # "<"

Inside(s) ==
    LET i == CHOOSE k \in DOMAIN s : s[k] = "<"
    IN  SubSeq(s, i + 1, Len(s) - 1)

\* The address a string or an address object stands for
Meant(f) ==
    IF f.kind = "string"
    THEN IF Bracketed(f.value) THEN Inside(f.value) ELSE f.value
    ELSE f.address

Supported(f) ==
    \/ f.kind = "string" /\ (Plain(f.value) \/ Bracketed(f.value))
    \/ f.kind = "object" /\ f.address # <<>>

\* The element of a field the resolver is to look at
Considered(f) ==
    IF f.kind = "list"
    THEN IF f.items = <<>> THEN [kind |-> "absent"] ELSE f.items[1]
    ELSE f

\* C27: what extractEmailAddress returns is "no address" (null or the empty
\* string) or a lower-case, trimmed string; for a plain string, a
\* `name <addr>` string or an object with an address, alone or first in a
\* list, it is that address lower-cased and trimmed; for an absent field, an
\* empty list, a null element, an object without address or an empty string
\* it is null.  The call always returns.
C27_ResolverNormalises ==
    /\ ENABLED Resolve \/ resolved.done
    /\ resolved.done =>
          LET r == resolved.value
              f == Considered(field)
          IN  /\ r.found => IsLower(r.address) /\ IsTrimmed(r.address)
              /\ Supported(f) => r = Str(trim(toLowerCase(Meant(f))))
              /\ f.kind \in {"absent", "null"} => r = Null
              /\ (f.kind = "object" /\ f.address = <<>>) => r = Null
              /\ (f.kind = "string" /\ f.value = <<>>) => r = Null

\* `A<A>` first in a list of two resolved to "a"
C27_Witness ==
    /\ resolved.done
    /\ field = ListField(<<StringField(<<"A", "<", "A", ">">>), ObjectField(StaffAddr)>>)
    /\ resolved.value = Str(<<"a">>)

\* ===================================================== one record per id
\* C28: of a message that carries an id the store never holds more than one
\* record, whatever the deliveries and whichever later step has failed
C28_OneRecordPerId == \A m \in WithId : emails[m] <= 1

\* ===================================================== flag and connection
\* The listener this.mailListener points to, while stop() has not closed it
Current(l) == l = mailListener /\ listeners[l] \in {"connecting", "connected"}

\* C29: the running flag is true exactly when the worker's current
\* connection is connected, and an event of a listener that a later start()
\* has superseded or stop() has closed changes neither the flag nor the
\* attempt counter and schedules no reconnect.
C29_FlagTracksCurrent ==
    /\ [](isRunning <=> (mailListener # 0 /\ listeners[mailListener] = "connected"))
    /\ [][\A l \in Slots :
            ((EvConnected(l) \/ EvDisconnected(l) \/ EvError(l)) /\ ~Current(l))
            => UNCHANGED <<isRunning, reconnectAttempts, timers>>]_vars

\* ===================================================== failed refresh
\* A start() is about to resume from its loadUserEmails() with a snapshot
\* that differs from the store, and a listener can be created
AtStartup == starting > 0 /\ userEmails # ClientEmails /\ FreeSlots # {}

\* C30: a loadUserEmails() that settles without the store's answer in the
\* cache (its query failed) leaves the snapshot as it was and rejects no
\* caller, be it start(), syncEmails() or refreshUserCache(); and a start()
\* whose query fails still opens its connection.
C30_FailedRefreshKeepsSnapshot ==
    /\ [][((starting' < starting \/ refreshing' < refreshing)
              /\ userEmails' # ClientEmails)
           => (userEmails' = userEmails /\ dropped' = dropped /\ rejected' = rejected)]_vars
    /\ [](AtStartup =>
            ENABLED (/\ StartResume
                     /\ userEmails' = userEmails
                     /\ mailListener' \in FreeSlots
                     /\ listeners'[mailListener'] = "connecting"))

\* The store holds a client account created after the cache's snapshot was
\* taken, and no load is pending: the load that followed the creation failed
\* and the cache kept the snapshot it had; the worker's connection was
\* opened and no caller was rejected
C30_Witness ==
    /\ users = {Client, Staff, Capitals}
    /\ userEmails = {ClientAddr}
    /\ starting = 0
    /\ refreshing = 0
    /\ mailListener # 0
    /\ listeners[mailListener] \in {"connecting", "connected"}
    /\ ~rejected

====
